---- MODULE Spec2Model ----
(***************************************************************************)
(* serde-view: run-time selection of the fields of a struct to serialize.  *)
(*                                                                         *)
(* Strings are sequences of one-character strings, so that splitting,      *)
(* case conversion and exact matching are computed rather than assumed.    *)
(***************************************************************************)
EXTENDS Integers, Sequences, FiniteSets, TLC

VARIABLES
    decl,    \* the struct as the derive macro sees it: the (name, variant)
             \* pair of every declared field, in declaration order
    vals,    \* the struct's fields as its own Serialize sees them, by
             \* declaration position: the value, and whether the field is
             \* declared to be omitted when it holds None
    pc,      \* where the caller is: "start", "ctx" (it holds a context),
             \* "returned" (it holds the Result of a builder operation),
             \* "panicked", "serialized" (Spec); "input", "parsed" (SpecParse)
    fields,  \* ViewContext.fields: the selection (a set of variants)
    op,      \* the last operation called on the way to what the caller holds
    ret,     \* the Result the last operation returned, until it is unwrapped
    doc,     \* the serialized document: a sequence of <<key, value>>
    input    \* what the last operation was handed: its argument and, for a
             \* builder operation, the selection of the context moved into it

vars == <<decl, vals, pc, fields, op, ret, doc, input>>

---------------------------------------------------------------------------
(* Bounds and input universes *)

\* longest string handed to from_str / from_str_split
MaxLen == 3

\* longest list handed to from_str_iter / with_fields / add_fields
MaxItems == 2

\* the characters input strings are made of
Chars == {"a", "b", "_", "A", " ", ","}

\* the characters of a comma separated list of identifiers
ListChars == {"a", "b", "_", ","}

\* the identifiers a struct may use as field names
Idents == { <<"a">>, <<"b">>, <<"a", "b">>, <<"_", "a">> }

\* the names from_str_iter is handed: every identifier, the empty string,
\* a name in the wrong case, a padded name
NameInputs == Idents \cup { <<>>, <<"A">>, <<" ", "a">> }

\* the names the builder operations are handed: every identifier (whichever
\* the struct does not declare is unknown to it) and a name in the wrong case
BuilderNames == Idents \cup { <<"A">> }

\* the fields a struct may have: an Option<bool> (as optional_flag in the
\* tests) holding None or Some(false), or one declared
\* skip_serializing_if = "Option::is_none" and holding None (holding
\* Some(false), such a field serializes as the plain one does)
FieldKinds ==
    { [value |-> "None", skip_if_none |-> FALSE],
      [value |-> "Some(false)", skip_if_none |-> FALSE],
      [value |-> "None", skip_if_none |-> TRUE] }

SeqsUpTo(S, n) == UNION { [1..k -> S] : k \in 0..n }

Strings == SeqsUpTo(Chars, MaxLen)

Lists == SeqsUpTo(ListChars, MaxLen)

None == [tag |-> "None"]

---------------------------------------------------------------------------
(* Result<T, Error> *)

Ok(v) == [tag |-> "Ok", val |-> v]

UnknownField(s) == [tag |-> "Err", kind |-> "UnknownField", name |-> s]

IsOk(r) == r.tag = "Ok"

IsErr(r) == r.tag = "Err"

---------------------------------------------------------------------------
(* The derive macro: the Fields enum and its ViewFields implementation *)

UpperOf(c) == CASE c = "a" -> "A" [] c = "b" -> "B" [] OTHER -> c

\* a split that never splits
split_whole(s, d) == << s >>

\* str::split: the pieces between the delimiters; never an empty sequence
RECURSIVE split(_, _)
split(s, d) ==
    IF \A i \in 1..Len(s) : s[i] # d
    THEN << s >>
    ELSE LET i == CHOOSE j \in 1..Len(s) :
                      s[j] = d /\ \A k \in 1..(j - 1) : s[k] # d
         IN  << SubSeq(s, 1, i - 1) >> \o split(SubSeq(s, i + 1, Len(s)), d)

\* the words of a snake_case identifier: the non-empty runs between underscores
RECURSIVE Words(_, _)
Words(s, cur) ==
    LET done == IF cur = << >> THEN << >> ELSE << cur >>
    IN  IF s = << >> THEN done
        ELSE IF Head(s) = "_" THEN done \o Words(Tail(s), << >>)
        ELSE Words(Tail(s), Append(cur, Head(s)))

RECURSIVE Capitalized(_)
Capitalized(ws) ==
    IF ws = << >> THEN << >>
    ELSE << UpperOf(Head(ws)[1]) >> \o Tail(Head(ws)) \o Capitalized(Tail(ws))

\* Case::Pascal: every word with its first letter in upper case, joined
ToPascal(name) == Capitalized(Words(name, << >>))

\* the (name, variant) pairs the macro collects from the named fields ns of
\* a struct, in declaration order
view_fields(ns) ==
    [i \in 1..Len(ns) |-> [name |-> ns[i], variant |-> ToPascal(ns[i])]]

\* a struct the compiler accepts: no field declared twice, and a generated
\* enum with no empty and no duplicate variant identifier
ValidStruct(ns) ==
    /\ \A i, j \in 1..Len(ns) : i # j => ns[i] # ns[j]
    /\ \A i \in 1..Len(ns) : ToPascal(ns[i]) # << >>
    /\ \A i, j \in 1..Len(ns) : i # j => ToPascal(ns[i]) # ToPascal(ns[j])

\* the structs of the model, each with the pairs the macro collects for it
Decls ==
    { view_fields(ns) : ns \in { l \in SeqsUpTo(Idents, Cardinality(Idents)) : ValidStruct(l) } }

\* the variants of the generated enum
Variants(d) == { d[i].variant : i \in 1..Len(d) }

\* the first arm of the generated match on a name: the first pair with it
NameArm(d, name) ==
    CHOOSE i \in 1..Len(d) : d[i].name = name /\ \A k \in 1..(i - 1) : d[k].name # name

\* the first arm of the generated match on a variant: the first pair with it
VariantArm(d, v) ==
    CHOOSE i \in 1..Len(d) : d[i].variant = v /\ \A k \in 1..(i - 1) : d[k].variant # v

\* as_str answering with the variant's identifier instead of the field's name
as_str_ident(d, v) == v

as_str(d, v) == d[VariantArm(d, v)].name

\* the input with the spaces around it removed
RECURSIVE Trimmed(_)
Trimmed(s) ==
    IF s # << >> /\ Head(s) = " " THEN Trimmed(Tail(s))
    ELSE IF s # << >> /\ s[Len(s)] = " " THEN Trimmed(SubSeq(s, 1, Len(s) - 1))
    ELSE s

\* from_str matching the trimmed input
from_str_trimmed(d, name) ==
    IF \E i \in 1..Len(d) : d[i].name = Trimmed(name)
    THEN [tag |-> "Ok", val |-> d[NameArm(d, Trimmed(name))].variant]
    ELSE [tag |-> "Err", kind |-> "UnknownField", name |-> name]

from_str(d, name) ==
    IF \E i \in 1..Len(d) : d[i].name = name
    THEN Ok(d[NameArm(d, name)].variant)
    ELSE UnknownField(name)

---------------------------------------------------------------------------
(* collect::<Result<HashSet<_>>>: the set of the Ok values, or the first Err *)

RECURSIVE collect(_, _)
collect(rs, acc) ==
    IF rs = << >> THEN Ok(acc)
    ELSE IF IsErr(Head(rs)) THEN Head(rs)
    ELSE collect(Tail(rs), acc \cup {Head(rs).val})

from_str_iter(d, names) ==
    collect([i \in 1..Len(names) |-> from_str(d, names[i])], {})

\* from_str_split leaving the empty pieces out
from_str_split_nonempty(d, names) ==
    from_str_iter(d, SelectSeq(split(names, ","), LAMBDA x : x # << >>))

from_str_split(d, names) == from_str_iter(d, split(names, ","))

---------------------------------------------------------------------------
(* IntoField: a typed variant, or a name resolved by from_str *)

VariantItem(v) == [kind |-> "variant", val |-> v]

StrItem(s) == [kind |-> "str", val |-> s]

into_field(d, f) == IF f.kind = "variant" THEN Ok(f.val) ELSE from_str(d, f.val)

\* fields.into_iter().map(|f| f.into_field()).collect::<Result<_>>()
resolve(d, xs) == collect([i \in 1..Len(xs) |-> into_field(d, xs[i])], {})

---------------------------------------------------------------------------
(* ViewContext: each operation takes the context by value and returns      *)
(* Ok(context) or Err; `self` is the selection of the context handed in,    *)
(* `fields` the selection the context holds when the call ends.             *)

\* as_view starting from the first field instead of from no field
as_view_first(d) == IF d = << >> THEN {} ELSE {d[1].variant}

as_view(d) == {}

\* with_fields emptying the selection before it resolves the new one
with_fields_clear_first(d, self, xs) ==
    LET r == resolve(d, xs)
    IN  IF r.tag = "Err" THEN [ret |-> r, fields |-> {}]
        ELSE [ret |-> [tag |-> "Ok", val |-> r.val], fields |-> r.val]

with_fields(d, self, xs) ==
    LET r == resolve(d, xs)
    IN  IF IsErr(r) THEN [ret |-> r, fields |-> self]
        ELSE [ret |-> Ok(r.val), fields |-> r.val]

\* the variant items and declared names of xs that come before the first
\* item that does not resolve, resolved
RECURSIVE ResolvedPrefix(_, _)
ResolvedPrefix(d, xs) ==
    IF xs = << >> \/ into_field(d, Head(xs)).tag = "Err" THEN {}
    ELSE {into_field(d, Head(xs)).val} \cup ResolvedPrefix(d, Tail(xs))

\* add_fields inserting every item as it resolves
add_fields_eager(d, self, xs) ==
    LET r == resolve(d, xs)
    IN  IF r.tag = "Err" THEN [ret |-> r, fields |-> self \cup ResolvedPrefix(d, xs)]
        ELSE [ret |-> [tag |-> "Ok", val |-> self \cup r.val], fields |-> self \cup r.val]

add_fields(d, self, xs) ==
    LET r == resolve(d, xs)
    IN  IF IsErr(r) THEN [ret |-> r, fields |-> self]
        ELSE [ret |-> Ok(self \cup r.val), fields |-> self \cup r.val]

\* add_field replacing the selection by the one field
add_field_replace(d, self, x) ==
    LET r == into_field(d, x)
    IN  IF r.tag = "Err" THEN [ret |-> r, fields |-> self]
        ELSE [ret |-> [tag |-> "Ok", val |-> {r.val}], fields |-> {r.val}]

add_field(d, self, x) ==
    LET r == into_field(d, x)
    IN  IF IsErr(r) THEN [ret |-> r, fields |-> self]
        ELSE [ret |-> Ok(self \cup {r.val}), fields |-> self \cup {r.val}]

---------------------------------------------------------------------------
(* Serialization *)

\* serde_json's encoding of an Option<bool>
Encode(v) == CASE v = "None" -> "null" [] v = "Some(false)" -> "false"

\* whether the struct's own Serialize leaves a field out
Omitted(f) == f.skip_if_none /\ f.value = "None"

\* the struct's own derived Serialize: its fields from the i-th on, in
\* declaration order, each as <<name, encoded value>> unless it is omitted
RECURSIVE OwnFrom(_, _, _)
OwnFrom(d, vs, i) ==
    IF i > Len(d) THEN << >>
    ELSE (IF Omitted(vs[i]) THEN << >> ELSE << << d[i].name, Encode(vs[i].value) >> >>)
         \o OwnFrom(d, vs, i + 1)

OwnSerialization(d, vs) == OwnFrom(d, vs, 1)

\* the variant of the field the struct emits under a key
FieldVariant(d, key) == d[CHOOSE i \in 1..Len(d) : d[i].name = key].variant

\* whether the adapter lets a field through
included(sel, v) == sel = {} \/ v \in sel

\* the filtering adapter: what the struct emits, in the order it emits it,
\* each field passed on as it is or skipped
RECURSIVE walk(_, _, _)
walk(d, emitted, sel) ==
    IF emitted = << >> THEN << >>
    ELSE (IF included(sel, FieldVariant(d, Head(emitted)[1]))
          THEN << Head(emitted) >>
          ELSE << >>) \o walk(d, Tail(emitted), sel)

\* an adapter that leaves a null in the place of a field it skips
serialize_placeholder(d, vs, sel) ==
    LET emitted == OwnSerialization(d, vs)
    IN  [i \in 1..Len(emitted) |->
            IF sel = {} \/ FieldVariant(d, emitted[i][1]) \in sel
            THEN emitted[i]
            ELSE << emitted[i][1], "null" >>]

serialize(d, vs, sel) == walk(d, OwnSerialization(d, vs), sel)

---------------------------------------------------------------------------
(* Spec: one struct, one view context, built up and then serialized *)

\* the lists a builder operation may be handed: all typed, or all names
ItemLists(d) ==
    { [i \in 1..Len(l) |-> VariantItem(l[i])] : l \in SeqsUpTo(Variants(d), MaxItems) }
    \cup
    { [i \in 1..Len(l) |-> StrItem(l[i])] : l \in SeqsUpTo(BuilderNames, MaxItems) }

Items(d) ==
    { VariantItem(v) : v \in Variants(d) } \cup { StrItem(s) : s \in BuilderNames }

\* the orders a HashSet may hand its elements out in
Orders(S) ==
    { l \in [1..Cardinality(S) -> S] : \A i, j \in 1..Cardinality(S) : i # j => l[i] # l[j] }

NoInput == [kind |-> "none", arg |-> << >>, self |-> {}]

Init ==
    /\ decl \in Decls
    /\ vals \in [1..Len(decl) -> FieldKinds]
    /\ pc = "start"
    /\ fields = {}
    /\ op = "none"
    /\ ret = None
    /\ doc = << >>
    /\ input = NoInput

AsView ==
    /\ pc = "start"
    /\ pc' = "ctx"
    /\ fields' = as_view(decl)
    /\ op' = "as_view"
    /\ UNCHANGED <<decl, vals, ret, doc, input>>

\* a builder operation returns: Ok(context), or Err with the context dropped
Built(name, arg, r) ==
    /\ pc' = "returned"
    /\ op' = name
    /\ input' = [kind |-> "items", arg |-> arg, self |-> fields]
    /\ ret' = r.ret
    /\ fields' = r.fields
    /\ UNCHANGED <<decl, vals, doc>>

WithFields ==
    /\ pc = "ctx"
    /\ \E xs \in ItemLists(decl) :
           Built("with_fields", xs, with_fields(decl, fields, xs))

AddFields ==
    /\ pc = "ctx"
    /\ \E xs \in ItemLists(decl) :
           Built("add_fields", xs, add_fields(decl, fields, xs))

AddField ==
    /\ pc = "ctx"
    /\ \E x \in Items(decl) :
           Built("add_field", << x >>, add_field(decl, fields, x))

\* the caller unwraps an Ok and holds the context again; the argument of the
\* call is gone
Unwrap ==
    /\ pc = "returned"
    /\ IsOk(ret)
    /\ pc' = "ctx"
    /\ op' = "unwrap"
    /\ ret' = None
    /\ input' = NoInput
    /\ UNCHANGED <<decl, vals, fields, doc>>

\* serde_json::to_value(context): the context is moved in and serialized
Serialize ==
    /\ pc = "ctx"
    /\ pc' = "serialized"
    /\ doc' = serialize(decl, vals, fields)
    /\ UNCHANGED <<decl, vals, fields, op, ret, input>>

\* the crate's example: to_value(my.as_view().with_fields(
\*     Fields::from_str_split(names).unwrap()).unwrap())
SerializeStrFields ==
    /\ pc = "start"
    /\ \E names \in Lists :
         /\ op' = "serialize_str_fields"
         /\ input' = [kind |-> "str", arg |-> names, self |-> {}]
         /\ LET parsed == from_str_split(decl, names)
            IN  IF IsErr(parsed)
                THEN /\ pc' = "panicked"
                     /\ ret' = parsed
                     /\ UNCHANGED <<fields, doc>>
                ELSE \E order \in Orders(parsed.val) :
                       LET r == with_fields(decl, as_view(decl),
                                            [i \in 1..Len(order) |-> VariantItem(order[i])])
                       IN  /\ pc' = "serialized"
                           /\ ret' = None
                           /\ fields' = r.fields
                           /\ doc' = serialize(decl, vals, r.fields)
    /\ UNCHANGED <<decl, vals>>

Next ==
    \/ AsView
    \/ WithFields
    \/ AddFields
    \/ AddField
    \/ Unwrap
    \/ Serialize
    \/ SerializeStrFields

Spec == Init /\ [][Next]_vars

---------------------------------------------------------------------------
(* SpecParse: the ViewFields functions applied to drawn inputs *)

StrInput(s) == [kind |-> "str", arg |-> s, self |-> {}]

ListInput(l) == [kind |-> "list", arg |-> l, self |-> {}]

ParseInputs ==
    { StrInput(s) : s \in Strings } \cup
    { ListInput(l) : l \in SeqsUpTo(NameInputs, MaxItems) }

NoVals == << >>

InitParse ==
    /\ decl \in Decls
    /\ input \in ParseInputs
    /\ vals = NoVals
    /\ pc = "input"
    /\ fields = {}
    /\ op = "none"
    /\ ret = None
    /\ doc = << >>

Returned(name, r) ==
    /\ pc' = "parsed"
    /\ op' = name
    /\ ret' = r
    /\ UNCHANGED <<decl, vals, fields, doc, input>>

FromStr ==
    /\ pc = "input"
    /\ input.kind = "str"
    /\ Returned("from_str", from_str(decl, input.arg))

FromStrIter ==
    /\ pc = "input"
    /\ input.kind = "list"
    /\ Returned("from_str_iter", from_str_iter(decl, input.arg))

FromStrSplit ==
    /\ pc = "input"
    /\ input.kind = "str"
    /\ Returned("from_str_split", from_str_split(decl, input.arg))

NextParse == FromStr \/ FromStrIter \/ FromStrSplit

SpecParse == InitParse /\ [][NextParse]_vars

---------------------------------------------------------------------------
(* Claims about the ViewFields functions, checked under SpecParse *)

\* the names the struct declares
DeclaredNames == { decl[i].name : i \in 1..Len(decl) }

\* the variants whose name is among the given names
VariantsNamed(names) ==
    { v \in Variants(decl) : \E i \in 1..Len(names) : as_str(decl, v) = names[i] }

\* the first of the given names that the struct does not declare
FirstUndeclared(names) ==
    names[CHOOSE i \in 1..Len(names) :
              /\ names[i] \notin DeclaredNames
              /\ \A k \in 1..(i - 1) : names[k] \in DeclaredNames]

\* C5: from_str of the name of a variant returns that variant, whatever the
\* struct, and no two variants of a struct have the same name.
C5_RoundTrip ==
    /\ \A v, w \in Variants(decl) : as_str(decl, v) = as_str(decl, w) => v = w
    /\ (pc = "parsed" /\ op = "from_str") =>
           \A v \in Variants(decl) : input.arg = as_str(decl, v) => ret = Ok(v)

\* from_str was handed the name of the second variant of a struct: the
\* identifier _a, whose variant is A
C5_Witness ==
    /\ pc = "parsed" /\ op = "from_str"
    /\ Len(decl) >= 2
    /\ input.arg = << "_", "a" >>
    /\ input.arg = as_str(decl, decl[2].variant)
    /\ ret = Ok(<< "A" >>)

\* C6: from_str_iter returns the set of the variants named when every name is
\* exactly a declared name, and otherwise the UnknownField error of the first
\* name, in the order of the list, that is not exactly a declared name.
C6_FromStrIter ==
    (pc = "parsed" /\ op = "from_str_iter") =>
        LET names == input.arg
        IN  IF \A i \in 1..Len(names) : names[i] \in DeclaredNames
            THEN /\ ret = Ok(VariantsNamed(names))
                 /\ Cardinality(ret.val) = Cardinality({ names[i] : i \in 1..Len(names) })
            ELSE ret = UnknownField(FirstUndeclared(names))

\* the struct declares a; the list holds a padded a and then A: the error
\* carries the padded name, the first of the two
C6_Witness ==
    /\ pc = "parsed" /\ op = "from_str_iter"
    /\ << "a" >> \in DeclaredNames
    /\ input.arg = << << " ", "a" >>, << "A" >> >>
    /\ ret = UnknownField(<< " ", "a" >>)

\* a string with an empty piece between, before or after its commas
HasEmptyToken(s) ==
    \/ s = << >>
    \/ s[1] = ","
    \/ s[Len(s)] = ","
    \/ \E i \in 1..(Len(s) - 1) : s[i] = "," /\ s[i + 1] = ","

\* the pieces before the first empty piece of a string are all declared names
OnlyNamesBeforeEmpty(s) ==
    \E i \in 1..Len(split(s, ",")) :
        /\ split(s, ",")[i] = << >>
        /\ \A k \in 1..(i - 1) : split(s, ",")[k] \in DeclaredNames

\* C7: from_str_split of the empty string fails with UnknownField(""), and so
\* does every string with an empty piece (a leading, trailing or doubled
\* comma) whose earlier pieces are declared names; no string with an empty
\* piece yields a selection.
C7_EmptyToken ==
    (pc = "parsed" /\ op = "from_str_split") =>
        /\ input.arg = << >> => ret = UnknownField(<< >>)
        /\ HasEmptyToken(input.arg) => IsErr(ret)
        /\ (HasEmptyToken(input.arg) /\ OnlyNamesBeforeEmpty(input.arg)) =>
               ret = UnknownField(<< >>)

\* from_str_split of the empty string, on a struct with fields, has failed
C7_Witness ==
    /\ pc = "parsed" /\ op = "from_str_split"
    /\ Len(decl) >= 1
    /\ input.arg = << >>
    /\ ret = UnknownField(<< >>)

---------------------------------------------------------------------------
(* Claims about the view context and its serialization, checked under Spec *)

\* an item that resolves: a typed variant, or exactly a declared name
Resolves(x) == x.kind = "variant" \/ x.val \in DeclaredNames

\* the variant an item that resolves stands for
VariantOf(x) ==
    IF x.kind = "variant" THEN x.val
    ELSE CHOOSE v \in Variants(decl) : as_str(decl, v) = x.val

VariantsOf(xs) == { VariantOf(xs[i]) : i \in 1..Len(xs) }

\* the error for the first item of xs that does not resolve
FirstUnresolved(xs) ==
    UnknownField(xs[CHOOSE i \in 1..Len(xs) :
                        ~Resolves(xs[i]) /\ \A k \in 1..(i - 1) : Resolves(xs[k])].val)

\* the keys of a document, as a set
Keys(document) == { document[i][1] : i \in 1..Len(document) }

\* C3: with_fields replaces the selection by exactly the variants its items
\* resolve to when all resolve, whatever the selection was; when one does not,
\* it returns the error of the first such item and the selection is as it was
\* before the call.
C3_WithFieldsAtomic ==
    (pc = "returned" /\ op = "with_fields") =>
        LET xs == input.arg
        IN  IF \A i \in 1..Len(xs) : Resolves(xs[i])
            THEN ret = Ok(VariantsOf(xs)) /\ fields = VariantsOf(xs)
            ELSE ret = FirstUnresolved(xs) /\ fields = input.self

\* with_fields has failed on a context that had a selection of two fields,
\* on a list with a declared name before the unknown one
C3_Witness ==
    /\ pc = "returned" /\ op = "with_fields"
    /\ Len(input.arg) = 2
    /\ input.arg[1].kind = "str" /\ Resolves(input.arg[1]) /\ ~Resolves(input.arg[2])
    /\ VariantOf(input.arg[1]) \notin input.self
    /\ Cardinality(input.self) = 2
    /\ ret = UnknownField(input.arg[2].val)
    /\ fields = input.self

\* C4: add_fields unites the selection with the variants its items resolve to
\* when all resolve; when one does not, whatever precedes it, it returns
\* UnknownField of the first such name and the selection is as it was. The
\* same holds of add_field and its one item.
C4_AddFieldsAtomic ==
    (pc = "returned" /\ op \in {"add_fields", "add_field"}) =>
        LET xs == input.arg
        IN  IF \A i \in 1..Len(xs) : Resolves(xs[i])
            THEN /\ ret = Ok(input.self \cup VariantsOf(xs))
                 /\ fields = input.self \cup VariantsOf(xs)
            ELSE ret = FirstUnresolved(xs) /\ fields = input.self

\* add_fields has failed with UnknownField("A") on a context that had a
\* selection of one field, on a list with the name of another field before "A"
C4_Witness ==
    /\ pc = "returned" /\ op = "add_fields"
    /\ Len(input.arg) = 2
    /\ input.arg[1].kind = "str" /\ Resolves(input.arg[1])
    /\ VariantOf(input.arg[1]) \notin input.self
    /\ input.arg[2] = StrItem(<< "A" >>)
    /\ Cardinality(input.self) = 1
    /\ ret = UnknownField(<< "A" >>)
    /\ fields = input.self

\* the names of a set of variants
NamesOf(sel) == { as_str(decl, v) : v \in sel }

\* the variant with a declared name
Named(n) == CHOOSE v \in Variants(decl) : as_str(decl, v) = n

\* whether the struct's own serialization leaves no field out
OmitsNone == \A i \in 1..Len(decl) : ~Omitted(vals[i])

\* every field of the struct, in declaration order, with its encoded value
EveryField == [i \in 1..Len(decl) |-> << decl[i].name, Encode(vals[i].value) >>]

\* C1: the context as_view returns, serialized with no builder operation in
\* between, has the empty selection and gives exactly the struct's own
\* serialization: every declared field the struct itself emits, with its
\* value, in declaration order.
C1_AsViewSerializesAll ==
    (pc = "serialized" /\ op = "as_view") =>
        /\ fields = {}
        /\ doc = OwnSerialization(decl, vals)
        /\ OmitsNone => doc = EveryField

\* a struct of three fields with different values was serialized right after
\* as_view
C1_Witness ==
    /\ pc = "serialized" /\ op = "as_view"
    /\ Len(decl) = 3 /\ OmitsNone
    /\ vals[1].value # vals[2].value
    /\ Len(doc) = 3

\* C2 as stated: with a non-empty selection S the keys of the document are
\* exactly the names of the variants in S.
C2_Original ==
    (pc = "serialized" /\ fields # {}) => Keys(doc) = NamesOf(fields)

\* C2 as amended: with a non-empty selection S the keys of the document are
\* exactly the names of the variants in S that the struct's own serialization
\* emits: no key outside S, no key twice, and a name of S is missing only if
\* the struct itself omits that field.
C2_SelectedKeys ==
    (pc = "serialized" /\ fields # {}) =>
        /\ Keys(doc) = NamesOf(fields) \cap Keys(OwnSerialization(decl, vals))
        /\ Len(doc) = Cardinality(Keys(doc))
        /\ OmitsNone => Keys(doc) = NamesOf(fields)

\* two of three fields were selected, the struct omits one of the two, and
\* the document has the other one alone
C2_Witness ==
    /\ pc = "serialized" /\ op = "unwrap"
    /\ Len(decl) = 3
    /\ fields = {decl[1].variant, decl[3].variant}
    /\ Omitted(vals[1]) /\ ~Omitted(vals[2]) /\ ~Omitted(vals[3])
    /\ Keys(doc) = {decl[3].name}

\* C8: from_str_split of two declared names joined by a comma, in either
\* order, gives the selection of their two variants, one variant when the
\* name is given twice; with_fields of it gives the selection, and the
\* document, that with_fields of the two typed variants gives.
C8_SplitEqualsTyped ==
    (op = "serialize_str_fields") =>
        \A n1, n2 \in DeclaredNames :
            input.arg = n1 \o << "," >> \o n2 =>
                LET typed == with_fields(decl, as_view(decl),
                                 << VariantItem(Named(n1)), VariantItem(Named(n2)) >>)
                IN  /\ pc = "serialized"
                    /\ fields = {Named(n1), Named(n2)}
                    /\ Cardinality(fields) = IF n1 = n2 THEN 1 ELSE 2
                    /\ IsOk(typed.ret) /\ fields = typed.fields
                    /\ doc = serialize(decl, vals, typed.fields)

\* "b,a" was split for a struct that declares a, then b, then a third field:
\* the selection is {A, B} and the document has a, then b
C8_Witness ==
    /\ pc = "serialized" /\ op = "serialize_str_fields"
    /\ input.arg = << "b", ",", "a" >>
    /\ Len(decl) = 3 /\ decl[1].name = << "a" >> /\ decl[2].name = << "b" >>
    /\ OmitsNone
    /\ fields = { << "A" >>, << "B" >> }
    /\ Len(doc) = 2 /\ doc[1][1] = << "a" >> /\ doc[2][1] = << "b" >>

\* whether a can be had from b by leaving elements out
RECURSIVE IsSubseq(_, _)
IsSubseq(a, b) ==
    IF a = << >> THEN TRUE
    ELSE IF b = << >> THEN FALSE
    ELSE IF Head(a) = Head(b) THEN IsSubseq(Tail(a), Tail(b))
    ELSE IsSubseq(a, Tail(b))

\* C9: the document is the struct's own serialization with elements left
\* out: the fields kept are in declaration order, each with the key and the
\* encoded value the struct gives it, and a field outside a non-empty
\* selection has no key in the document.
C9_OrderedSubsequence ==
    (pc = "serialized") =>
        /\ IsSubseq(doc, OwnSerialization(decl, vals))
        /\ \A i \in 1..Len(decl) :
               (fields # {} /\ decl[i].variant \notin fields) => decl[i].name \notin Keys(doc)

\* the first and the third of three fields were selected, the second holds
\* None: the document is the first and the third element of the struct's own
C9_Witness ==
    /\ pc = "serialized" /\ op = "unwrap"
    /\ Len(decl) = 3 /\ OmitsNone
    /\ fields = {decl[1].variant, decl[3].variant}
    /\ vals[2].value = "None" /\ vals[1].value # vals[3].value
    /\ doc = << OwnSerialization(decl, vals)[1], OwnSerialization(decl, vals)[3] >>

\* the fields the selection lets through: all of them when it is empty
Selected(sel) == { i \in 1..Len(decl) : sel = {} \/ decl[i].variant \in sel }

\* what a builder operation that has returned would serialize to, before
\* and after the call
DocBefore == serialize(decl, vals, input.self)

DocAfter == serialize(decl, vals, fields)

\* C10 as stated: a non-empty struct never serializes to less than one
\* field; with_fields of the empty list succeeds, empties the selection and
\* the context then serializes all fields; add_field on a fresh context
\* shrinks the output from all fields to one; add_field on a non-empty
\* selection removes no key.
C10_Original ==
    /\ (pc = "serialized" /\ op \in {"as_view", "unwrap"} /\ Len(decl) >= 1) =>
           Len(doc) >= 1
    /\ (pc = "returned" /\ op = "with_fields" /\ input.arg = << >>) =>
           IsOk(ret) /\ fields = {} /\ Len(DocAfter) = Len(decl)
    /\ (pc = "returned" /\ op = "add_field" /\ IsOk(ret) /\ input.self = {}) =>
           Len(DocBefore) = Len(decl) /\ Len(DocAfter) = 1
    /\ (pc = "returned" /\ op = "add_field" /\ IsOk(ret) /\ input.self # {}) =>
           Keys(DocBefore) \subseteq Keys(DocAfter)

\* C10 as amended: the selection of a non-empty struct always lets at least
\* one field through, so the document has at least one field whenever the
\* struct's own serialization omits none, and is empty only if the struct
\* omits every field let through; with_fields of the empty list succeeds,
\* empties the selection and the context then serializes as the struct does;
\* add_field on a fresh context narrows the selection to that one field and
\* the output to it, or to nothing if the struct omits it; add_field on a
\* non-empty selection removes no key.
C10_EmptyMeansAll ==
    /\ (pc = "serialized" /\ Len(decl) >= 1) =>
           /\ Selected(fields) # {}
           /\ OmitsNone => Len(doc) >= 1
           /\ doc = << >> => \A i \in Selected(fields) : Omitted(vals[i])
    /\ (pc = "returned" /\ op = "with_fields" /\ input.arg = << >>) =>
           /\ IsOk(ret) /\ fields = {}
           /\ DocAfter = OwnSerialization(decl, vals)
           /\ OmitsNone => Len(DocAfter) = Len(decl)
    /\ (pc = "returned" /\ op = "add_field" /\ IsOk(ret) /\ input.self = {}) =>
           /\ DocBefore = OwnSerialization(decl, vals)
           /\ fields = {VariantOf(input.arg[1])}
           /\ Keys(DocAfter) \subseteq NamesOf(fields)
           /\ OmitsNone => Len(DocAfter) = 1
    /\ (pc = "returned" /\ op = "add_field" /\ IsOk(ret) /\ input.self # {}) =>
           Keys(DocBefore) \subseteq Keys(DocAfter)

\* with_fields of the empty list has returned on a context narrowed to one
\* field of three: the selection is empty and it serializes all three
C10_Witness ==
    /\ pc = "returned" /\ op = "with_fields"
    /\ input.arg = << >>
    /\ Len(decl) = 3 /\ OmitsNone
    /\ Cardinality(input.self) = 1 /\ Len(DocBefore) = 1
    /\ fields = {} /\ Len(DocAfter) = 3

====
